---- MODULE Spec2Model ----
(***************************************************************************)
(* The todo store of todo_backend/app/models/todo_store.py: a list of todo *)
(* dicts guarded by one lock, persisted as a whole JSON file on every      *)
(* mutation (write to <file>.tmp, then os.replace).                        *)
(*                                                                         *)
(* Python values are modelled as follows.                                  *)
(*   str          a sequence of character codes (so that lower(), strip(), *)
(*                substring search and < on strings are computed)          *)
(*   None / x     the sequences << >> and <<x>> (None, Some)               *)
(*   dict objects live in a heap: the store's list and the callers hold    *)
(*                addresses, dict(t) allocates a new object                *)
(*   uuid4        a fresh natural number                                   *)
(*   the file     a sequence of JSON tokens; a partial write is a prefix   *)
(***************************************************************************)
EXTENDS Integers, Sequences, FiniteSets, TLC

\* ------------------------------------------------------------ bounds
\* ids the model hands out (uuid4 calls)
MaxId == 2
\* last clock tick
MaxClock == 1
\* heap addresses
MaxAddr == 8
\* length of the collections the list specification starts from
MaxLen == 3

\* ------------------------------------------------------------ constants
\* per_page used when the argument is falsy
DefaultPerPage == 20
\* page used when the argument is falsy
DefaultPage == 1

Threads == {1, 2}
\* the thread that imports the application and constructs the store
Main == CHOOSE t \in Threads : \A u \in Threads : t <= u
Ids == 1..MaxId
\* the ids a record of the collection can carry
RecIds == 1..MaxLen
Addr == 1..MaxAddr

\* ------------------------------------------------------------ str
None == << >>
Some(x) == <<x>>

\* "desc", "asc"
s_desc == <<100, 101, 115, 99>>
s_DESC == <<68, 69, 83, 67>>
s_Desc == <<68, 101, 115, 99>>
s_asc == <<97, 115, 99>>
s_bogus == <<120>>
\* titles and descriptions: " a ", "B", "ab"
s_a_padded == <<32, 97, 32>>
s_a == <<97>>
s_B == <<66>>
s_ab == <<97, 98>>
s_empty == << >>

\* str.isspace(), the characters str.strip() removes
IsSpace(c) ==
    c \in (9..13) \cup (28..32) \cup {133, 160, 5760} \cup (8192..8202)
              \cup {8232, 8233, 8239, 8287, 12288}

\* the lower case mapping of str.lower(), <<first, last, step, offset>>:
\* the characters first, first + step, .., last map to themselves + offset
LowerRanges ==
    { <<65, 90, 1, 32>>, <<192, 214, 1, 32>>, <<216, 222, 1, 32>>,
      <<256, 302, 2, 1>>, <<306, 310, 2, 1>>, <<313, 327, 2, 1>>,
      <<330, 374, 2, 1>>, <<376, 376, 1, -121>>, <<377, 381, 2, 1>>,
      <<385, 385, 1, 210>>, <<386, 388, 2, 1>>, <<390, 390, 1, 206>>,
      <<391, 391, 1, 1>>, <<393, 394, 1, 205>>, <<395, 395, 1, 1>>,
      <<398, 398, 1, 79>>, <<399, 399, 1, 202>>, <<400, 400, 1, 203>>,
      <<401, 401, 1, 1>>, <<403, 403, 1, 205>>, <<404, 404, 1, 207>>,
      <<406, 406, 1, 211>>, <<407, 407, 1, 209>>, <<408, 408, 1, 1>>,
      <<412, 412, 1, 211>>, <<413, 413, 1, 213>>, <<415, 415, 1, 214>>,
      <<416, 420, 2, 1>>, <<422, 422, 1, 218>>, <<423, 423, 1, 1>>,
      <<425, 425, 1, 218>>, <<428, 428, 1, 1>>, <<430, 430, 1, 218>>,
      <<431, 431, 1, 1>>, <<433, 434, 1, 217>>, <<435, 437, 2, 1>>,
      <<439, 439, 1, 219>>, <<440, 440, 1, 1>>, <<444, 444, 1, 1>>,
      <<452, 452, 1, 2>>, <<453, 453, 1, 1>>, <<455, 455, 1, 2>>,
      <<456, 456, 1, 1>>, <<458, 458, 1, 2>>, <<459, 475, 2, 1>>,
      <<478, 494, 2, 1>>, <<497, 497, 1, 2>>, <<498, 500, 2, 1>>,
      <<502, 502, 1, -97>>, <<503, 503, 1, -56>>, <<504, 542, 2, 1>>,
      <<544, 544, 1, -130>>, <<546, 562, 2, 1>>, <<570, 570, 1, 10795>>,
      <<571, 571, 1, 1>>, <<573, 573, 1, -163>>, <<574, 574, 1, 10792>>,
      <<577, 577, 1, 1>>, <<579, 579, 1, -195>>, <<580, 580, 1, 69>>,
      <<581, 581, 1, 71>>, <<582, 590, 2, 1>>, <<880, 882, 2, 1>>,
      <<886, 886, 1, 1>>, <<895, 895, 1, 116>>, <<902, 902, 1, 38>>,
      <<904, 906, 1, 37>>, <<908, 908, 1, 64>>, <<910, 911, 1, 63>>,
      <<913, 929, 1, 32>>, <<931, 939, 1, 32>>, <<975, 975, 1, 8>>,
      <<984, 1006, 2, 1>>, <<1012, 1012, 1, -60>>, <<1015, 1015, 1, 1>>,
      <<1017, 1017, 1, -7>>, <<1018, 1018, 1, 1>>, <<1021, 1023, 1, -130>>,
      <<1024, 1039, 1, 80>>, <<1040, 1071, 1, 32>>, <<1120, 1152, 2, 1>>,
      <<1162, 1214, 2, 1>>, <<1216, 1216, 1, 15>>, <<1217, 1229, 2, 1>>,
      <<1232, 1326, 2, 1>>, <<1329, 1366, 1, 48>>, <<4256, 4293, 1, 7264>>,
      <<4295, 4295, 1, 7264>>, <<4301, 4301, 1, 7264>>, <<5024, 5103, 1, 38864>>,
      <<5104, 5109, 1, 8>>, <<7312, 7354, 1, -3008>>, <<7357, 7359, 1, -3008>>,
      <<7680, 7828, 2, 1>>, <<7838, 7838, 1, -7615>>, <<7840, 7934, 2, 1>>,
      <<7944, 7951, 1, -8>>, <<7960, 7965, 1, -8>>, <<7976, 7983, 1, -8>>,
      <<7992, 7999, 1, -8>>, <<8008, 8013, 1, -8>>, <<8025, 8031, 2, -8>>,
      <<8040, 8047, 1, -8>>, <<8072, 8079, 1, -8>>, <<8088, 8095, 1, -8>>,
      <<8104, 8111, 1, -8>>, <<8120, 8121, 1, -8>>, <<8122, 8123, 1, -74>>,
      <<8124, 8124, 1, -9>>, <<8136, 8139, 1, -86>>, <<8140, 8140, 1, -9>>,
      <<8152, 8153, 1, -8>>, <<8154, 8155, 1, -100>>, <<8168, 8169, 1, -8>>,
      <<8170, 8171, 1, -112>>, <<8172, 8172, 1, -7>>, <<8184, 8185, 1, -128>>,
      <<8186, 8187, 1, -126>>, <<8188, 8188, 1, -9>>, <<8486, 8486, 1, -7517>>,
      <<8490, 8490, 1, -8383>>, <<8491, 8491, 1, -8262>>, <<8498, 8498, 1, 28>>,
      <<8544, 8559, 1, 16>>, <<8579, 8579, 1, 1>>, <<9398, 9423, 1, 26>>,
      <<11264, 11311, 1, 48>>, <<11360, 11360, 1, 1>>, <<11362, 11362, 1, -10743>>,
      <<11363, 11363, 1, -3814>>, <<11364, 11364, 1, -10727>>, <<11367, 11371, 2, 1>>,
      <<11373, 11373, 1, -10780>>, <<11374, 11374, 1, -10749>>, <<11375, 11375, 1, -10783>>,
      <<11376, 11376, 1, -10782>>, <<11378, 11378, 1, 1>>, <<11381, 11381, 1, 1>>,
      <<11390, 11391, 1, -10815>>, <<11392, 11490, 2, 1>>, <<11499, 11501, 2, 1>>,
      <<11506, 11506, 1, 1>>, <<42560, 42604, 2, 1>>, <<42624, 42650, 2, 1>>,
      <<42786, 42798, 2, 1>>, <<42802, 42862, 2, 1>>, <<42873, 42875, 2, 1>>,
      <<42877, 42877, 1, -35332>>, <<42878, 42886, 2, 1>>, <<42891, 42891, 1, 1>>,
      <<42893, 42893, 1, -42280>>, <<42896, 42898, 2, 1>>, <<42902, 42920, 2, 1>>,
      <<42922, 42922, 1, -42308>>, <<42923, 42923, 1, -42319>>, <<42924, 42924, 1, -42315>>,
      <<42925, 42925, 1, -42305>>, <<42926, 42926, 1, -42308>>, <<42928, 42928, 1, -42258>>,
      <<42929, 42929, 1, -42282>>, <<42930, 42930, 1, -42261>>, <<42931, 42931, 1, 928>>,
      <<42932, 42946, 2, 1>>, <<42948, 42948, 1, -48>>, <<42949, 42949, 1, -42307>>,
      <<42950, 42950, 1, -35384>>, <<42951, 42953, 2, 1>>, <<42960, 42960, 1, 1>>,
      <<42966, 42968, 2, 1>>, <<42997, 42997, 1, 1>>, <<65313, 65338, 1, 32>>,
      <<66560, 66599, 1, 40>>, <<66736, 66771, 1, 40>>, <<66928, 66938, 1, 39>>,
      <<66940, 66954, 1, 39>>, <<66956, 66962, 1, 39>>, <<66964, 66965, 1, 39>>,
      <<68736, 68786, 1, 64>>, <<71840, 71871, 1, 32>>, <<93760, 93791, 1, 32>>,
      <<125184, 125217, 1, 34>> }

\* the characters with the property Cased, <<first, last>>
CasedRanges ==
    { <<65, 90>>, <<97, 122>>, <<170, 170>>, <<181, 181>>,
      <<186, 186>>, <<192, 214>>, <<216, 246>>, <<248, 442>>,
      <<444, 447>>, <<452, 659>>, <<661, 696>>, <<704, 705>>,
      <<736, 740>>, <<837, 837>>, <<880, 883>>, <<886, 887>>,
      <<890, 893>>, <<895, 895>>, <<902, 902>>, <<904, 906>>,
      <<908, 908>>, <<910, 929>>, <<931, 1013>>, <<1015, 1153>>,
      <<1162, 1327>>, <<1329, 1366>>, <<1376, 1416>>, <<4256, 4293>>,
      <<4295, 4295>>, <<4301, 4301>>, <<4304, 4346>>, <<4349, 4351>>,
      <<5024, 5109>>, <<5112, 5117>>, <<7296, 7304>>, <<7312, 7354>>,
      <<7357, 7359>>, <<7424, 7615>>, <<7680, 7957>>, <<7960, 7965>>,
      <<7968, 8005>>, <<8008, 8013>>, <<8016, 8023>>, <<8025, 8025>>,
      <<8027, 8027>>, <<8029, 8029>>, <<8031, 8061>>, <<8064, 8116>>,
      <<8118, 8124>>, <<8126, 8126>>, <<8130, 8132>>, <<8134, 8140>>,
      <<8144, 8147>>, <<8150, 8155>>, <<8160, 8172>>, <<8178, 8180>>,
      <<8182, 8188>>, <<8305, 8305>>, <<8319, 8319>>, <<8336, 8348>>,
      <<8450, 8450>>, <<8455, 8455>>, <<8458, 8467>>, <<8469, 8469>>,
      <<8473, 8477>>, <<8484, 8484>>, <<8486, 8486>>, <<8488, 8488>>,
      <<8490, 8493>>, <<8495, 8500>>, <<8505, 8505>>, <<8508, 8511>>,
      <<8517, 8521>>, <<8526, 8526>>, <<8544, 8575>>, <<8579, 8580>>,
      <<9398, 9449>>, <<11264, 11492>>, <<11499, 11502>>, <<11506, 11507>>,
      <<11520, 11557>>, <<11559, 11559>>, <<11565, 11565>>, <<42560, 42605>>,
      <<42624, 42653>>, <<42786, 42887>>, <<42891, 42894>>, <<42896, 42954>>,
      <<42960, 42961>>, <<42963, 42963>>, <<42965, 42969>>, <<42997, 42998>>,
      <<43000, 43002>>, <<43824, 43866>>, <<43868, 43880>>, <<43888, 43967>>,
      <<64256, 64262>>, <<64275, 64279>>, <<65313, 65338>>, <<65345, 65370>>,
      <<66560, 66639>>, <<66736, 66771>>, <<66776, 66811>>, <<66928, 66938>>,
      <<66940, 66954>>, <<66956, 66962>>, <<66964, 66965>>, <<66967, 66977>>,
      <<66979, 66993>>, <<66995, 67001>>, <<67003, 67004>>, <<67456, 67456>>,
      <<67459, 67461>>, <<67463, 67504>>, <<67506, 67514>>, <<68736, 68786>>,
      <<68800, 68850>>, <<71840, 71903>>, <<93760, 93823>>, <<119808, 119892>>,
      <<119894, 119964>>, <<119966, 119967>>, <<119970, 119970>>, <<119973, 119974>>,
      <<119977, 119980>>, <<119982, 119993>>, <<119995, 119995>>, <<119997, 120003>>,
      <<120005, 120069>>, <<120071, 120074>>, <<120077, 120084>>, <<120086, 120092>>,
      <<120094, 120121>>, <<120123, 120126>>, <<120128, 120132>>, <<120134, 120134>>,
      <<120138, 120144>>, <<120146, 120485>>, <<120488, 120512>>, <<120514, 120538>>,
      <<120540, 120570>>, <<120572, 120596>>, <<120598, 120628>>, <<120630, 120654>>,
      <<120656, 120686>>, <<120688, 120712>>, <<120714, 120744>>, <<120746, 120770>>,
      <<120772, 120779>>, <<122624, 122633>>, <<122635, 122654>>, <<125184, 125251>>,
      <<127280, 127305>>, <<127312, 127337>>, <<127344, 127369>> }

\* the characters with the property Case_Ignorable, <<first, last>>
CaseIgnorableRanges ==
    { <<39, 39>>, <<46, 46>>, <<58, 58>>, <<94, 94>>,
      <<96, 96>>, <<168, 168>>, <<173, 173>>, <<175, 175>>,
      <<180, 180>>, <<183, 184>>, <<688, 879>>, <<884, 885>>,
      <<890, 890>>, <<900, 901>>, <<903, 903>>, <<1155, 1161>>,
      <<1369, 1369>>, <<1375, 1375>>, <<1425, 1469>>, <<1471, 1471>>,
      <<1473, 1474>>, <<1476, 1477>>, <<1479, 1479>>, <<1524, 1524>>,
      <<1536, 1541>>, <<1552, 1562>>, <<1564, 1564>>, <<1600, 1600>>,
      <<1611, 1631>>, <<1648, 1648>>, <<1750, 1757>>, <<1759, 1768>>,
      <<1770, 1773>>, <<1807, 1807>>, <<1809, 1809>>, <<1840, 1866>>,
      <<1958, 1968>>, <<2027, 2037>>, <<2042, 2042>>, <<2045, 2045>>,
      <<2070, 2093>>, <<2137, 2139>>, <<2184, 2184>>, <<2192, 2193>>,
      <<2200, 2207>>, <<2249, 2306>>, <<2362, 2362>>, <<2364, 2364>>,
      <<2369, 2376>>, <<2381, 2381>>, <<2385, 2391>>, <<2402, 2403>>,
      <<2417, 2417>>, <<2433, 2433>>, <<2492, 2492>>, <<2497, 2500>>,
      <<2509, 2509>>, <<2530, 2531>>, <<2558, 2558>>, <<2561, 2562>>,
      <<2620, 2620>>, <<2625, 2626>>, <<2631, 2632>>, <<2635, 2637>>,
      <<2641, 2641>>, <<2672, 2673>>, <<2677, 2677>>, <<2689, 2690>>,
      <<2748, 2748>>, <<2753, 2757>>, <<2759, 2760>>, <<2765, 2765>>,
      <<2786, 2787>>, <<2810, 2815>>, <<2817, 2817>>, <<2876, 2876>>,
      <<2879, 2879>>, <<2881, 2884>>, <<2893, 2893>>, <<2901, 2902>>,
      <<2914, 2915>>, <<2946, 2946>>, <<3008, 3008>>, <<3021, 3021>>,
      <<3072, 3072>>, <<3076, 3076>>, <<3132, 3132>>, <<3134, 3136>>,
      <<3142, 3144>>, <<3146, 3149>>, <<3157, 3158>>, <<3170, 3171>>,
      <<3201, 3201>>, <<3260, 3260>>, <<3263, 3263>>, <<3270, 3270>>,
      <<3276, 3277>>, <<3298, 3299>>, <<3328, 3329>>, <<3387, 3388>>,
      <<3393, 3396>>, <<3405, 3405>>, <<3426, 3427>>, <<3457, 3457>>,
      <<3530, 3530>>, <<3538, 3540>>, <<3542, 3542>>, <<3633, 3633>>,
      <<3636, 3642>>, <<3654, 3662>>, <<3761, 3761>>, <<3764, 3772>>,
      <<3782, 3782>>, <<3784, 3789>>, <<3864, 3865>>, <<3893, 3893>>,
      <<3895, 3895>>, <<3897, 3897>>, <<3953, 3966>>, <<3968, 3972>>,
      <<3974, 3975>>, <<3981, 3991>>, <<3993, 4028>>, <<4038, 4038>>,
      <<4141, 4144>>, <<4146, 4151>>, <<4153, 4154>>, <<4157, 4158>>,
      <<4184, 4185>>, <<4190, 4192>>, <<4209, 4212>>, <<4226, 4226>>,
      <<4229, 4230>>, <<4237, 4237>>, <<4253, 4253>>, <<4348, 4348>>,
      <<4957, 4959>>, <<5906, 5908>>, <<5938, 5939>>, <<5970, 5971>>,
      <<6002, 6003>>, <<6068, 6069>>, <<6071, 6077>>, <<6086, 6086>>,
      <<6089, 6099>>, <<6103, 6103>>, <<6109, 6109>>, <<6155, 6159>>,
      <<6211, 6211>>, <<6277, 6278>>, <<6313, 6313>>, <<6432, 6434>>,
      <<6439, 6440>>, <<6450, 6450>>, <<6457, 6459>>, <<6679, 6680>>,
      <<6683, 6683>>, <<6742, 6742>>, <<6744, 6750>>, <<6752, 6752>>,
      <<6754, 6754>>, <<6757, 6764>>, <<6771, 6780>>, <<6783, 6783>>,
      <<6823, 6823>>, <<6832, 6862>>, <<6912, 6915>>, <<6964, 6964>>,
      <<6966, 6970>>, <<6972, 6972>>, <<6978, 6978>>, <<7019, 7027>>,
      <<7040, 7041>>, <<7074, 7077>>, <<7080, 7081>>, <<7083, 7085>>,
      <<7142, 7142>>, <<7144, 7145>>, <<7149, 7149>>, <<7151, 7153>>,
      <<7212, 7219>>, <<7222, 7223>>, <<7288, 7293>>, <<7376, 7378>>,
      <<7380, 7392>>, <<7394, 7400>>, <<7405, 7405>>, <<7412, 7412>>,
      <<7416, 7417>>, <<7468, 7530>>, <<7544, 7544>>, <<7579, 7679>>,
      <<8125, 8125>>, <<8127, 8129>>, <<8141, 8143>>, <<8157, 8159>>,
      <<8173, 8175>>, <<8189, 8190>>, <<8203, 8207>>, <<8216, 8217>>,
      <<8228, 8228>>, <<8231, 8231>>, <<8234, 8238>>, <<8288, 8292>>,
      <<8294, 8303>>, <<8305, 8305>>, <<8319, 8319>>, <<8336, 8348>>,
      <<8400, 8432>>, <<11388, 11389>>, <<11503, 11505>>, <<11631, 11631>>,
      <<11647, 11647>>, <<11744, 11775>>, <<11823, 11823>>, <<12293, 12293>>,
      <<12330, 12333>>, <<12337, 12341>>, <<12347, 12347>>, <<12441, 12446>>,
      <<12540, 12542>>, <<40981, 40981>>, <<42232, 42237>>, <<42508, 42508>>,
      <<42607, 42610>>, <<42612, 42621>>, <<42623, 42623>>, <<42652, 42655>>,
      <<42736, 42737>>, <<42752, 42785>>, <<42864, 42864>>, <<42888, 42890>>,
      <<42994, 42996>>, <<43000, 43001>>, <<43010, 43010>>, <<43014, 43014>>,
      <<43019, 43019>>, <<43045, 43046>>, <<43052, 43052>>, <<43204, 43205>>,
      <<43232, 43249>>, <<43263, 43263>>, <<43302, 43309>>, <<43335, 43345>>,
      <<43392, 43394>>, <<43443, 43443>>, <<43446, 43449>>, <<43452, 43453>>,
      <<43471, 43471>>, <<43493, 43494>>, <<43561, 43566>>, <<43569, 43570>>,
      <<43573, 43574>>, <<43587, 43587>>, <<43596, 43596>>, <<43632, 43632>>,
      <<43644, 43644>>, <<43696, 43696>>, <<43698, 43700>>, <<43703, 43704>>,
      <<43710, 43711>>, <<43713, 43713>>, <<43741, 43741>>, <<43756, 43757>>,
      <<43763, 43764>>, <<43766, 43766>>, <<43867, 43871>>, <<43881, 43883>>,
      <<44005, 44005>>, <<44008, 44008>>, <<44013, 44013>>, <<64286, 64286>>,
      <<64434, 64450>>, <<65024, 65039>>, <<65043, 65043>>, <<65056, 65071>>,
      <<65106, 65106>>, <<65109, 65109>>, <<65279, 65279>>, <<65287, 65287>>,
      <<65294, 65294>>, <<65306, 65306>>, <<65342, 65342>>, <<65344, 65344>>,
      <<65392, 65392>>, <<65438, 65439>>, <<65507, 65507>>, <<65529, 65531>>,
      <<66045, 66045>>, <<66272, 66272>>, <<66422, 66426>>, <<67456, 67461>>,
      <<67463, 67504>>, <<67506, 67514>>, <<68097, 68099>>, <<68101, 68102>>,
      <<68108, 68111>>, <<68152, 68154>>, <<68159, 68159>>, <<68325, 68326>>,
      <<68900, 68903>>, <<69291, 69292>>, <<69446, 69456>>, <<69506, 69509>>,
      <<69633, 69633>>, <<69688, 69702>>, <<69744, 69744>>, <<69747, 69748>>,
      <<69759, 69761>>, <<69811, 69814>>, <<69817, 69818>>, <<69821, 69821>>,
      <<69826, 69826>>, <<69837, 69837>>, <<69888, 69890>>, <<69927, 69931>>,
      <<69933, 69940>>, <<70003, 70003>>, <<70016, 70017>>, <<70070, 70078>>,
      <<70089, 70092>>, <<70095, 70095>>, <<70191, 70193>>, <<70196, 70196>>,
      <<70198, 70199>>, <<70206, 70206>>, <<70367, 70367>>, <<70371, 70378>>,
      <<70400, 70401>>, <<70459, 70460>>, <<70464, 70464>>, <<70502, 70508>>,
      <<70512, 70516>>, <<70712, 70719>>, <<70722, 70724>>, <<70726, 70726>>,
      <<70750, 70750>>, <<70835, 70840>>, <<70842, 70842>>, <<70847, 70848>>,
      <<70850, 70851>>, <<71090, 71093>>, <<71100, 71101>>, <<71103, 71104>>,
      <<71132, 71133>>, <<71219, 71226>>, <<71229, 71229>>, <<71231, 71232>>,
      <<71339, 71339>>, <<71341, 71341>>, <<71344, 71349>>, <<71351, 71351>>,
      <<71453, 71455>>, <<71458, 71461>>, <<71463, 71467>>, <<71727, 71735>>,
      <<71737, 71738>>, <<71995, 71996>>, <<71998, 71998>>, <<72003, 72003>>,
      <<72148, 72151>>, <<72154, 72155>>, <<72160, 72160>>, <<72193, 72202>>,
      <<72243, 72248>>, <<72251, 72254>>, <<72263, 72263>>, <<72273, 72278>>,
      <<72281, 72283>>, <<72330, 72342>>, <<72344, 72345>>, <<72752, 72758>>,
      <<72760, 72765>>, <<72767, 72767>>, <<72850, 72871>>, <<72874, 72880>>,
      <<72882, 72883>>, <<72885, 72886>>, <<73009, 73014>>, <<73018, 73018>>,
      <<73020, 73021>>, <<73023, 73029>>, <<73031, 73031>>, <<73104, 73105>>,
      <<73109, 73109>>, <<73111, 73111>>, <<73459, 73460>>, <<78896, 78904>>,
      <<92912, 92916>>, <<92976, 92982>>, <<92992, 92995>>, <<94031, 94031>>,
      <<94095, 94111>>, <<94176, 94177>>, <<94179, 94180>>, <<110576, 110579>>,
      <<110581, 110587>>, <<110589, 110590>>, <<113821, 113822>>, <<113824, 113827>>,
      <<118528, 118573>>, <<118576, 118598>>, <<119143, 119145>>, <<119155, 119170>>,
      <<119173, 119179>>, <<119210, 119213>>, <<119362, 119364>>, <<121344, 121398>>,
      <<121403, 121452>>, <<121461, 121461>>, <<121476, 121476>>, <<121499, 121503>>,
      <<121505, 121519>>, <<122880, 122886>>, <<122888, 122904>>, <<122907, 122913>>,
      <<122915, 122916>>, <<122918, 122922>>, <<123184, 123197>>, <<123566, 123566>>,
      <<123628, 123631>>, <<125136, 125142>>, <<125252, 125259>>, <<127995, 127999>>,
      <<917505, 917505>>, <<917536, 917631>>, <<917760, 917999>> }

Cased(c) == \E r \in CasedRanges : r[1] <= c /\ c <= r[2]

CaseIgnorable(c) == \E r \in CaseIgnorableRanges : r[1] <= c /\ c <= r[2]

\* chr(c).lower(): one character, but for 304 (two)
LowerChar(c) ==
    IF c < 128 THEN <<IF c >= 65 /\ c <= 90 THEN c + 32 ELSE c>>
    ELSE IF c = 304 THEN <<105, 775>>
    ELSE LET hits == {r \in LowerRanges :
                         r[1] <= c /\ c <= r[2] /\ (c - r[1]) % r[3] = 0}
         IN IF hits = {} THEN <<c>>
            ELSE <<c + (CHOOSE r \in hits : TRUE)[4]>>

\* the capital sigma at i is final: before it, behind the characters that
\* case ignores, stands a cased one, and after it none does (cased and
\* ignorable are the positions of s with these properties)
FinalSigmaAt(s, i, cased, ignorable) ==
    LET before == (1..(i - 1)) \ ignorable
        after == ((i + 1)..Len(s)) \ ignorable
    IN /\ before # {}
       /\ (CHOOSE j \in before : \A k \in before : k <= j) \in cased
       /\ after = {} \/ (CHOOSE j \in after : \A k \in after : j <= k) \notin cased

FinalSigma(s, i) ==
    FinalSigmaAt(s, i, {j \in 1..Len(s) : Cased(s[j])},
                 {j \in 1..Len(s) : CaseIgnorable(s[j])})

\* what the character at i of s becomes in s.lower()
LowerAt(s, i) ==
    IF s[i] = 931 THEN <<IF FinalSigma(s, i) THEN 962 ELSE 963>>
    ELSE LowerChar(s[i])

\* the number of characters that s.lower() holds for the first i of s
LowerLen(s, i) == i + Cardinality({j \in 1..i : s[j] = 304})

\* str.lower()
Lower(s) ==
    [k \in 1..LowerLen(s, Len(s)) |->
        LET i == CHOOSE i \in 1..Len(s) :
                     LowerLen(s, i - 1) < k /\ k <= LowerLen(s, i)
        IN LowerAt(s, i)[k - LowerLen(s, i - 1)]]

\* str.strip()
Strip(s) ==
    LET keep == {i \in 1..Len(s) : ~IsSpace(s[i])}
    IN IF keep = {} THEN << >>
       ELSE LET lo == CHOOSE i \in keep : \A j \in keep : i <= j
                hi == CHOOSE i \in keep : \A j \in keep : i >= j
            IN SubSeq(s, lo, hi)

\* q in s
Contains(q, s) ==
    \E i \in 1..(Len(s) - Len(q) + 1) : SubSeq(s, i, i + Len(q) - 1) = q

\* a < b on strings (and on tuples of numbers): lexicographic on the codes
SeqLess(a, b) ==
    \E i \in 1..(Len(b)) :
        /\ i <= Len(a) + 1
        /\ \A j \in 1..(i - 1) : a[j] = b[j]
        /\ (i = Len(a) + 1 \/ a[i] < b[i])

\* s or ""  (s is an optional str)
OrEmpty(s) == IF s = None \/ s[1] = << >> THEN << >> ELSE s[1]

\* ------------------------------------------------------------ time
\* The clock ticks twice a second. datetime.isoformat() leaves the fraction
\* out when the microseconds are 0. One digit (48 is "0") stands for the date
\* and time up to the seconds, <<46, 53>> (".5") for ".500000", 90 is "Z".
utc_now_iso(c) ==
    <<48 + (c \div 2)>>
        \o (IF c % 2 = 0 THEN << >> ELSE <<46, 53>>)
        \o <<90>>

\* ------------------------------------------------------------ dicts
TodoKeys == <<"id", "title", "description", "completed", "created_at",
              "updated_at", "due_date", "priority">>

\* the caller's dict `data`: the keys it has and their values (a key that is
\* absent has the filler None / FALSE)
MkData(keys, title, description, completed, due_date, priority) ==
    [keys |-> keys, title |-> title, description |-> description,
     completed |-> completed, due_date |-> due_date, priority |-> priority]

\* data.get(k), with None for a missing key
DataGet(data, k) == IF k \in data.keys THEN data[k] ELSE None

\* t.get(k, default) for the fields d of a dict
FieldGet(d, k, default) == IF k \in DOMAIN d THEN d[k] ELSE default

\* the fields of a dict after d[k] = new[k] for every field k of new
Assigned(d, new) ==
    [k \in DOMAIN d \cup DOMAIN new |-> IF k \in DOMAIN new THEN new[k] ELSE d[k]]

\* the key order of a dict after assignments to the keys of order, in that
\* order: a key it has keeps its place, a new one goes to the end
KeysAfter(keys, order) ==
    keys \o SelectSeq(order, LAMBDA k : \A i \in 1..Len(keys) : keys[i] # k)

\* heap objects: the dicts, and what else a file may put into the list
Free == [kind |-> "free"]
\* a dict: its keys in the order they were inserted, and its fields
DictOf(keys, d) == [kind |-> "dict", keys |-> keys, d |-> d]
\* a dict the store builds: the keys of the literal in create
DictObj(d) == DictOf(TodoKeys, d)
StrObj(s) == [kind |-> "str", s |-> s]
\* the str that is the key k, for a key whose characters KeyStr does not list
NameObj(k) == [kind |-> "str", name |-> k]
NumObj(n) == [kind |-> "num", n |-> n]
LitObj(v) == [kind |-> "lit", v |-> v]
ListObj(toks) == [kind |-> "list", toks |-> toks]

\* ------------------------------------------------------------ JSON
\* A text is the sequence of its tokens. The payload object is written with
\* braces and keys; an object inside it (a record) is one token.
TokLBrace == [t |-> "{"]
TokRBrace == [t |-> "}"]
TokLBrack == [t |-> "["]
TokRBrack == [t |-> "]"]
TokKey(k) == [t |-> "key", k |-> k]
TokObj(pairs) == [t |-> "obj", o |-> pairs]
TokStr(s) == [t |-> "str", s |-> s]
TokName(k) == [t |-> "str", name |-> k]
TokNum(n) == [t |-> "num", n |-> n]
\* null, true, false
TokLit(v) == [t |-> "lit", v |-> v]

\* json encoding of one element of the list: a dict keeps its key order
DumpObj(o) ==
    IF o.kind = "dict"
    THEN <<TokObj([i \in 1..Len(o.keys) |-> <<o.keys[i], o.d[o.keys[i]]>>])>>
    ELSE IF o.kind = "str"
    THEN <<IF "s" \in DOMAIN o THEN TokStr(o.s) ELSE TokName(o.name)>>
    ELSE IF o.kind = "num" THEN <<TokNum(o.n)>>
    ELSE IF o.kind = "lit" THEN <<TokLit(o.v)>>
    ELSE o.toks

RECURSIVE DumpAll(_)
DumpAll(objs) ==
    IF objs = << >> THEN << >> ELSE DumpObj(Head(objs)) \o DumpAll(Tail(objs))

\* json.dump({"todos": objs}, f): the tokens written, in order
JsonDump(objs) ==
    <<TokLBrace, TokKey("todos"), TokLBrack>>
        \o DumpAll(objs)
        \o <<TokRBrack, TokRBrace>>

\* the dict a JSON object token decodes to: of two members with one key the
\* first gives the place and the last the value
LoadObj(tok) ==
    LET n == Len(tok.o)
        firsts == SelectSeq([i \in 1..n |-> i],
                            LAMBDA i : \A j \in 1..(i - 1) : tok.o[j][1] # tok.o[i][1])
    IN DictOf([p \in 1..Len(firsts) |-> tok.o[firsts[p]][1]],
              [k \in {tok.o[i][1] : i \in 1..n} |->
                  tok.o[CHOOSE i \in 1..n :
                            /\ tok.o[i][1] = k
                            /\ \A j \in (i + 1)..n : tok.o[j][1] # k][2]])

\* the keys whose characters KeyStr lists
SpelledKeys == {TodoKeys[i] : i \in 1..Len(TodoKeys)} \cup {"todos"}

\* the characters of a key
KeyStr(k) ==
    CASE k = "id" -> <<105, 100>>
      [] k = "title" -> <<116, 105, 116, 108, 101>>
      [] k = "description" -> <<100, 101, 115, 99, 114, 105, 112, 116, 105, 111, 110>>
      [] k = "completed" -> <<99, 111, 109, 112, 108, 101, 116, 101, 100>>
      [] k = "created_at" -> <<99, 114, 101, 97, 116, 101, 100, 95, 97, 116>>
      [] k = "updated_at" -> <<117, 112, 100, 97, 116, 101, 100, 95, 97, 116>>
      [] k = "due_date" -> <<100, 117, 101, 95, 100, 97, 116, 101>>
      [] k = "priority" -> <<112, 114, 105, 111, 114, 105, 116, 121>>
      [] k = "todos" -> <<116, 111, 100, 111, 115>>

\* the str object that is the key k
KeyObj(k) == IF k \in SpelledKeys THEN StrObj(KeyStr(k)) ELSE NameObj(k)

RECURSIVE ValueEnd(_, _)
RECURSIVE ListEnd(_, _)
\* the index of the last token of the JSON value that starts at i (0 when
\* no value starts there)
ValueEnd(text, i) ==
    IF i > Len(text) THEN 0
    ELSE IF text[i].t \in {"num", "str", "lit", "obj"} THEN i
    ELSE IF text[i].t = "[" THEN ListEnd(text, i + 1)
    ELSE 0

\* the index of the "]" of the array whose next element starts at j (0 when
\* the array is not closed)
ListEnd(text, j) ==
    IF j > Len(text) THEN 0
    ELSE IF text[j].t = "]" THEN j
    ELSE IF ValueEnd(text, j) = 0 THEN 0
    ELSE ListEnd(text, ValueEnd(text, j) + 1)

\* the elements of a well-formed array whose next element starts at j
RECURSIVE Elems(_, _)
Elems(text, j) ==
    IF text[j].t = "]" THEN << >>
    ELSE <<[lo |-> j, hi |-> ValueEnd(text, j)]>>
             \o Elems(text, ValueEnd(text, j) + 1)

\* the members of the payload object from token j on are well formed and
\* its "}" ends the text
RECURSIVE MembersOk(_, _)
MembersOk(text, j) ==
    IF j > Len(text) THEN FALSE
    ELSE IF text[j].t = "}" THEN j = Len(text)
    ELSE /\ text[j].t = "key"
         /\ ValueEnd(text, j + 1) # 0
         /\ MembersOk(text, ValueEnd(text, j + 1) + 1)

\* the members of a well-formed payload object from token j on
RECURSIVE Members(_, _)
Members(text, j) ==
    IF text[j].t = "}" THEN << >>
    ELSE <<[k |-> text[j].k, lo |-> j + 1, hi |-> ValueEnd(text, j + 1)]>>
             \o Members(text, ValueEnd(text, j + 1) + 1)

\* the object an element of the array decodes to
ElemObj(text, lo, hi) ==
    IF text[lo].t = "obj" THEN LoadObj(text[lo])
    ELSE IF text[lo].t = "str"
    THEN (IF "s" \in DOMAIN text[lo] THEN StrObj(text[lo].s)
          ELSE NameObj(text[lo].name))
    ELSE IF text[lo].t = "num" THEN NumObj(text[lo].n)
    ELSE IF text[lo].t = "lit" THEN LitObj(text[lo].v)
    ELSE ListObj(SubSeq(text, lo, hi))

\* list(v) for the value v at lo..hi: the elements of an array, the
\* characters of a str, the keys of a dict; a number, null, true and false
\* raise
ListOf(text, lo, hi) ==
    IF text[lo].t = "["
    THEN [ok |-> TRUE,
          objs |-> LET es == Elems(text, lo + 1)
                   IN [i \in 1..Len(es) |-> ElemObj(text, es[i].lo, es[i].hi)]]
    ELSE IF text[lo].t = "str"
    THEN [ok |-> TRUE,
          objs |-> [i \in 1..Len(text[lo].s) |-> StrObj(<<text[lo].s[i]>>)]]
    ELSE IF text[lo].t = "obj"
    THEN [ok |-> TRUE,
          objs |-> LET keys == LoadObj(text[lo]).keys
                   IN [i \in 1..Len(keys) |-> KeyObj(keys[i])]]
    ELSE [ok |-> FALSE, objs |-> << >>]

\* list(data.get("todos", [])) for data = json.loads(raw or "{}"):
\* [ok |-> FALSE] when any step raises (the text is no JSON, data is no
\* dict, list() of the value raises). Of two members with one key the last
\* counts.
LoadsTodos(text) ==
    IF text = << >> THEN [ok |-> TRUE, objs |-> << >>]
    ELSE IF text[1].t = "{"
    THEN IF ~MembersOk(text, 2) THEN [ok |-> FALSE, objs |-> << >>]
         ELSE LET ms == Members(text, 2)
                  hits == {i \in 1..Len(ms) : ms[i].k = "todos"}
              IN IF hits = {} THEN [ok |-> TRUE, objs |-> << >>]
                 ELSE LET m == ms[CHOOSE i \in hits : \A j \in hits : j <= i]
                      IN ListOf(text, m.lo, m.hi)
    ELSE IF Len(text) = 1 /\ text[1].t = "obj"
               /\ \A i \in 1..Len(text[1].o) : text[1].o[i][1] # "todos"
    THEN [ok |-> TRUE, objs |-> << >>]
    ELSE [ok |-> FALSE, objs |-> << >>]

\* ------------------------------------------------------------ files
NoFile == [exists |-> FALSE, text |-> << >>]
FileOf(text) == [exists |-> TRUE, text |-> text]

\* what the store may find at its path when the process starts
BootFiles ==
    { NoFile,
      FileOf(<< >>),
      FileOf(<<TokLBrace, TokKey("todos")>>),
      FileOf(<<TokLBrack, TokRBrack>>),
      FileOf(<<TokLBrace, TokKey("todos"), TokNum(5), TokRBrace>>),
      FileOf(<<TokLBrace, TokKey("todos"), TokStr(<<97>>), TokRBrace>>),
      FileOf(<<TokLBrace, TokKey("todos"), TokLBrack, TokNum(5), TokRBrack,
               TokRBrace>>),
      FileOf(<<TokLBrace, TokKey("x"), TokNum(5), TokRBrace>>),
      FileOf(JsonDump(<< >>)) }


\* ------------------------------------------------------------ state
VARIABLES
    persistence,  \* self._persistence (any other mode: no store is built)
    file,         \* the target file, self._file_path
    tmp,          \* the temp file, str(self._file_path) + ".tmp"
    heap,         \* the objects of the process: address -> object
    todos,        \* self._todos: a list of addresses
    lock,         \* self._lock: 0 when free, else the thread holding it
    pc,           \* where each thread is in its call
    op,           \* the locals of each thread's call
    ret,          \* what the last call to end returned (or that it raised), and
                  \* for list the arguments the caller passed; the caller drops
                  \* it when the next call starts or ends
    clock,        \* the wall clock, in ticks
    nextId,       \* the next value uuid4 gives
    last,         \* outcome of the last mutating call that ended: none, ok, raised
    pre,          \* the collection when the mutation in progress took the lock
    base,         \* per id: completed when the record was created, loaded or last
                  \* written by something other than a returned toggle
    flips,        \* per id: parity of the toggle calls returned since
    deleted       \* the ids for which a delete call returned True

vars == <<persistence, file, tmp, heap, todos, lock, pc, op, ret, clock,
          nextId, last, pre, base, flips, deleted>>

\* the arguments of a list call
ListArgs(search, completed, sort_by, sort_dir, page, per_page) ==
    [search |-> search, completed |-> completed, sort_by |-> sort_by,
     sort_dir |-> sort_dir, page |-> page, per_page |-> per_page]
\* list(): the defaults of the signature
DefaultArgs == ListArgs(None, None, "created_at", Some(s_desc), 1, 20)

\* the locals of a call: its name, the id it is about, the dict it built
\* (todo, updated), the snapshot and the arguments of list
NoOp == [name |-> "none", id |-> 0, obj |-> 0, snap |-> << >>, args |-> DefaultArgs]
NoMeta == [page |-> 0, per_page |-> 0, total |-> 0, pages |-> 0]
NoRet == [call |-> "none", id |-> 0, st |-> "none", obj |-> 0, items |-> << >>,
          meta |-> NoMeta, args |-> DefaultArgs]
\* the result of call(id): st is ok, notfound, true, false or raised
RetObj(call, id, st, a) ==
    [call |-> call, id |-> id, st |-> st, obj |-> a, items |-> << >>,
     meta |-> NoMeta, args |-> DefaultArgs]

Range(q) == {q[i] : i \in 1..Len(q)}

\* the addresses some reference reaches: the store's list, the locals of the
\* calls in progress, the results the callers hold
InUse(td, opv, retv) ==
    (Range(td)
        \cup UNION {{opv[t].obj} \cup Range(opv[t].snap) : t \in Threads}
        \cup {retv.obj} \cup Range(retv.items))
    \ {0}

\* the address a new object gets
NewAddr(used) == CHOOSE a \in Addr \ used : \A b \in Addr \ used : a <= b

\* the references of the process in a fixed order: the store's list, the
\* locals of each thread, the result held
ThreadSeq == <<1, 2>>
RefSeq(td, opv, retv) ==
    td \o <<opv[ThreadSeq[1]].obj>> \o opv[ThreadSeq[1]].snap
       \o <<opv[ThreadSeq[2]].obj>> \o opv[ThreadSeq[2]].snap
       \o <<retv.obj>> \o retv.items

\* the addresses of a sequence of references in the order of their first
\* occurrence (0 is no reference)
RECURSIVE FirstRefs(_, _)
FirstRefs(refs, acc) ==
    IF refs = << >> THEN acc
    ELSE FirstRefs(Tail(refs),
                   IF Head(refs) = 0 \/ Head(refs) \in Range(acc)
                   THEN acc ELSE Append(acc, Head(refs)))

\* the new name of address a: its place in order
NewName(order, a) ==
    IF a = 0 THEN 0 ELSE CHOOSE i \in 1..Len(order) : order[i] = a

RenameSeq(order, q) == [i \in 1..Len(q) |-> NewName(order, q[i])]

\* The step ends with heap h, list td, locals opv and result retv.
\* Addresses are not observable, so states are kept up to renaming: an object
\* is renamed to its rank in RefSeq (the store's list is always <<1, .., n>>).
\* An object nothing refers to is freed (reference counting).
Commit(h, td, opv, retv) ==
    \E order \in {FirstRefs(RefSeq(td, opv, retv), << >>)} :
       /\ heap' = [n \in Addr |-> IF n <= Len(order) THEN h[order[n]] ELSE Free]
       /\ todos' = RenameSeq(order, td)
       /\ op' = [t \in Threads |->
                   [opv[t] EXCEPT !.obj = NewName(order, @),
                                  !.snap = RenameSeq(order, @)]]
       /\ ret' = [retv EXCEPT !.obj = NewName(order, @),
                              !.items = RenameSeq(order, @)]

\* the values of a list of addresses
Deref(h, td) == [i \in 1..Len(td) |-> h[td[i]]]

\* the store is constructed (the import of the application has finished)
Constructed == op[Main].name # "ctor"

\* the storage modes the process is started with, lowered and stripped: the
\* two the constructor supports, and one it does not
Modes == {"file", "memory", "sqlite"}

\* ------------------------------------------------------------ Init
\* the process starts: nothing is constructed yet, the main thread is about
\* to run TodoStore(...)
Init ==
    /\ persistence \in Modes
    /\ file \in (IF persistence = "file" THEN BootFiles ELSE {NoFile})
    /\ tmp = NoFile
    /\ heap = [a \in Addr |-> Free]
    /\ todos = << >>
    /\ lock = 0
    /\ pc = [t \in Threads |-> IF t = Main THEN "ctor" ELSE "idle"]
    /\ op = [t \in Threads |-> IF t = Main THEN [NoOp EXCEPT !.name = "ctor"] ELSE NoOp]
    /\ ret = NoRet
    /\ clock = 0
    /\ nextId = 1
    /\ last = "none"
    /\ pre = << >>
    /\ base = [i \in RecIds |-> FALSE]
    /\ flips = [i \in RecIds |-> 0]
    /\ deleted = {}

\* the wall clock advances
Tick ==
    /\ clock < MaxClock
    /\ clock' = clock + 1
    /\ UNCHANGED <<persistence, file, tmp, heap, todos, lock, pc, op, ret,
                   nextId, last, pre, base, flips, deleted>>

\* completed of the record with id i in a list of objects (FALSE when absent)
CompletedOf(objs, i) ==
    LET hits == {k \in 1..Len(objs) :
                    /\ objs[k].kind = "dict"
                    /\ "id" \in DOMAIN objs[k].d
                    /\ objs[k].d.id = i}
    IN IF hits = {} THEN FALSE
       ELSE FieldGet(objs[CHOOSE k \in hits : \A j \in hits : k <= j].d,
                     "completed", FALSE)

\* __init__ with _load_from_disk: an existing file is read (anything that
\* raises gives the empty list), a missing one makes the store persist the
\* empty list
Construct(t) ==
    /\ pc[t] = "ctor"
    /\ lock = 0
    /\ IF persistence \notin {"file", "memory"}
       THEN \* raise ValueError: no store comes to exist
            /\ pc' = [pc EXCEPT ![t] = "raised"]
            /\ last' = "raised"
            /\ UNCHANGED <<heap, todos, lock, op, base>>
       ELSE IF persistence = "memory"
       THEN /\ todos' = << >>
            /\ heap' = [a \in Addr |-> Free]
            /\ pc' = [pc EXCEPT ![t] = "idle"]
            /\ op' = [op EXCEPT ![t] = NoOp]
            /\ UNCHANGED <<lock, base, last>>
       ELSE IF file.exists
       THEN LET r == LoadsTodos(file.text)
                objs == IF r.ok THEN r.objs ELSE << >>
            IN /\ Len(objs) <= MaxAddr
               /\ todos' = [i \in 1..Len(objs) |-> i]
               /\ heap' = [a \in Addr |-> IF a <= Len(objs) THEN objs[a] ELSE Free]
               /\ base' = [i \in RecIds |-> CompletedOf(objs, i)]
               /\ pc' = [pc EXCEPT ![t] = "idle"]
               /\ op' = [op EXCEPT ![t] = NoOp]
               /\ UNCHANGED <<lock, last>>
       ELSE /\ todos' = << >>
            /\ heap' = [a \in Addr |-> Free]
            /\ lock' = t
            /\ pc' = [pc EXCEPT ![t] = "persist"]
            /\ UNCHANGED <<op, base, last>>
    /\ UNCHANGED <<persistence, file, tmp, ret, clock, nextId, pre,
                   flips, deleted>>

\* the process is started anew: the memory of the one before is lost, the
\* main thread is about to run TodoStore(...)
Started ==
    /\ heap' = [a \in Addr |-> Free]
    /\ todos' = << >>
    /\ lock' = 0
    /\ pc' = [t \in Threads |-> IF t = Main THEN "ctor" ELSE "idle"]
    /\ op' = [t \in Threads |-> IF t = Main THEN [NoOp EXCEPT !.name = "ctor"] ELSE NoOp]
    /\ ret' = NoRet
    /\ last' = "none"
    /\ pre' = << >>
    /\ base' = [i \in RecIds |-> FALSE]
    /\ flips' = [i \in RecIds |-> 0]
    /\ deleted' = {}
    /\ UNCHANGED <<persistence, file, clock, nextId>>

\* the temp file as the disk holds it: open(tmp_path, "w") gives a buffered
\* file, and what json.dump has handed to it stays in the memory of the
\* process until the with block closes the file (the serializations here are
\* shorter than the buffer, so nothing is flushed earlier)
Flushed ==
    IF lock # 0 /\ pc[lock] = "persist_write" THEN FileOf(<< >>) ELSE tmp

\* the process is killed (at any point) and is started again: the memory is
\* lost, the text still in the buffer of the temp file with it, the files
\* stay as the disk holds them
Restart ==
    /\ Started
    /\ tmp' = Flushed

Crash ==
    /\ Constructed \/ lock # 0
    /\ Restart


\* ------------------------------------------------------------ inputs
\* bool(x) of an optional bool
Truthy(v) == v # None /\ v[1]

\* the dicts the callers pass to create
RichCreate ==
    MkData({"title", "description", "completed", "priority"},
           Some(s_B), Some(s_ab), Some(TRUE), None, Some(1))
CreateInputs ==
    { MkData({"title"}, Some(s_a_padded), None, None, None, None), RichCreate }

\* the dicts the callers pass to update
RichUpdate ==
    MkData({"title", "completed", "priority"},
           Some(s_a_padded), None, Some(TRUE), None, Some(2))
UpdateInputs ==
    { MkData({"title", "description", "completed", "due_date", "priority"},
             None, None, None, None, None),
      RichUpdate }

\* ------------------------------------------------------------ create
\* the dict create builds before it takes the lock
NewTodo(data, id, now) ==
    [id |-> id,
     title |-> Strip(OrEmpty(DataGet(data, "title"))),
     description |-> DataGet(data, "description"),
     completed |-> Truthy(DataGet(data, "completed")),
     created_at |-> now,
     updated_at |-> now,
     due_date |-> DataGet(data, "due_date"),
     priority |-> DataGet(data, "priority")]

\* create, up to `with self._lock`: reads the clock, draws the id, builds todo
CreateBegin(t, data) ==
    /\ pc[t] = "idle"
    /\ Constructed
    /\ nextId <= MaxId
    /\ LET ret0 == NoRet
           used == InUse(todos, op, ret0)
       IN /\ Addr \ used # {}
          /\ LET a == NewAddr(used)
                 op1 == [op EXCEPT ![t] = [NoOp EXCEPT !.name = "create",
                                                      !.id = nextId, !.obj = a]]
             IN Commit([heap EXCEPT ![a] =
                           DictObj(NewTodo(data, nextId, utc_now_iso(clock)))],
                       todos, op1, ret0)
    /\ nextId' = nextId + 1
    /\ pc' = [pc EXCEPT ![t] = "create_wait"]
    /\ UNCHANGED <<persistence, file, tmp, lock, clock, last, pre,
                   base, flips, deleted>>

\* create, inside the lock: self._todos.append(todo), then _persist_locked
CreateLocked(t) ==
    /\ pc[t] = "create_wait"
    /\ lock = 0
    /\ lock' = t
    /\ Commit(heap, Append(todos, op[t].obj), op, ret)
    /\ pre' = Deref(heap, todos)
    /\ base' = [base EXCEPT ![op[t].id] = heap[op[t].obj].d.completed]
    /\ flips' = [flips EXCEPT ![op[t].id] = 0]
    /\ pc' = [pc EXCEPT ![t] = "persist"]
    /\ UNCHANGED <<persistence, file, tmp, clock, nextId, last, deleted>>

\* ------------------------------------------------------------ the scan
\* `for idx, t in enumerate(self._todos): if t.get("id") == todo_id`:
\* the index the loop stops at (0: it runs to the end), and whether it stops
\* by raising (t.get on an element that is no dict)
Scan(h, td, id) ==
    LET stops == {i \in 1..Len(td) :
                     \/ h[td[i]].kind # "dict"
                     \/ ("id" \in DOMAIN h[td[i]].d /\ h[td[i]].d.id = id)}
        idx == IF stops = {} THEN 0
               ELSE CHOOSE i \in stops : \A j \in stops : i <= j
    IN [idx |-> idx,
        raises |-> idx # 0 /\ h[td[idx]].kind # "dict"]

\* ------------------------------------------------------------ get
get(t, id) ==
    /\ pc[t] = "idle"
    /\ Constructed
    /\ lock = 0
    /\ LET sc == Scan(heap, todos, id)
           ret0 == NoRet
           used == InUse(todos, op, ret0)
       IN IF sc.raises
          THEN Commit(heap, todos, op, RetObj("get", id, "raised", 0))
          ELSE IF sc.idx = 0
          THEN Commit(heap, todos, op, RetObj("get", id, "notfound", 0))
          ELSE /\ Addr \ used # {}
               /\ LET a == NewAddr(used)
                  IN Commit([heap EXCEPT ![a] = heap[todos[sc.idx]]],
                            todos, op, RetObj("get", id, "ok", a))
    /\ UNCHANGED <<persistence, file, tmp, lock, pc, clock, nextId,
                   last, pre, base, flips, deleted>>


\* ------------------------------------------------------------ update
\* the keys update assigns, in the order it assigns them
UpdateOrder(data) ==
    SelectSeq(<<"title", "description", "completed", "due_date", "priority",
                "updated_at">>,
              LAMBDA k :
                  \/ k = "updated_at"
                  \/ (k \in data.keys /\ (k \in {"title", "completed"} => data[k] # None)))

\* an update that takes an absent key for a null
UpdatedDictAbsentClears(d, data, now) ==
    Assigned(d, [k \in {"title", "description", "completed", "due_date",
                        "priority", "updated_at"}
                       \ {f \in {"title", "completed"} : data[f] = None} |->
                    IF k = "title" THEN Strip(data.title[1])
                    ELSE IF k = "completed" THEN data.completed[1]
                    ELSE IF k = "updated_at" THEN now
                    ELSE data[k]])

\* the fields of the dict update builds from the fields d of the record and
\* the payload
UpdatedDict(d, data, now) ==
    Assigned(d, [k \in {UpdateOrder(data)[i] : i \in 1..Len(UpdateOrder(data))} |->
                    IF k = "title" THEN Strip(data.title[1])
                    ELSE IF k = "completed" THEN data.completed[1]
                    ELSE IF k = "updated_at" THEN now
                    ELSE data[k]])

\* a toggle that stamps created_at as well
ToggledDictRestamps(d, now) ==
    Assigned(d, [completed |-> ~FieldGet(d, "completed", FALSE),
                 created_at |-> now,
                 updated_at |-> now])

\* a toggle that sets completed instead of flipping it
ToggledDictSet(d, now) ==
    Assigned(d, [completed |-> TRUE, updated_at |-> now])

\* the fields of the dict toggle builds from the fields d of the record
ToggledDict(d, now) ==
    Assigned(d, [completed |-> ~FieldGet(d, "completed", FALSE),
                 updated_at |-> now])

\* a call that scans for id and replaces the record it finds by the dict it
\* builds (update with the payload data, and toggle, up to _persist_locked)
ReplaceRecord(t, name, id, data) ==
    /\ pc[t] = "idle"
    /\ Constructed
    /\ lock = 0
    /\ LET sc == Scan(heap, todos, id)
           ret0 == NoRet
           used == InUse(todos, op, ret0)
       IN IF sc.raises \/ sc.idx = 0
          THEN /\ Commit(heap, todos, op,
                         RetObj(name, id, IF sc.raises THEN "raised" ELSE "notfound", 0))
               /\ UNCHANGED <<lock, pc, pre>>
          ELSE /\ Addr \ used # {}
               /\ LET a == NewAddr(used)
                      td1 == [todos EXCEPT ![sc.idx] = a]
                      op1 == [op EXCEPT ![t] = [NoOp EXCEPT !.name = name,
                                                           !.id = id, !.obj = a]]
                      d == heap[todos[sc.idx]].d
                      now == utc_now_iso(clock)
                      updated == IF name = "update" THEN UpdatedDict(d, data, now)
                                 ELSE ToggledDict(d, now)
                      keys == KeysAfter(heap[todos[sc.idx]].keys,
                                        IF name = "update" THEN UpdateOrder(data)
                                        ELSE <<"completed", "updated_at">>)
                  IN Commit([heap EXCEPT ![a] = DictOf(keys, updated)], td1, op1, ret0)
               /\ lock' = t
               /\ pre' = Deref(heap, todos)
               /\ pc' = [pc EXCEPT ![t] = "persist"]
    /\ UNCHANGED <<persistence, file, tmp, clock, nextId, last, deleted>>

update(t, id, data) ==
    /\ ReplaceRecord(t, "update", id, data)
    /\ IF op'[t].name = "update"
       THEN /\ base' = [base EXCEPT ![id] =
                           FieldGet(heap'[op'[t].obj].d, "completed", FALSE)]
            /\ flips' = [flips EXCEPT ![id] = 0]
       ELSE UNCHANGED <<base, flips>>

toggle(t, id) ==
    /\ ReplaceRecord(t, "toggle", id, MkData({}, None, None, None, None, None))
    /\ UNCHANGED <<base, flips>>

\* ------------------------------------------------------------ delete
\* a delete that cuts the list at idx
DelFrom(q, idx) == SubSeq(q, 1, idx - 1)

\* the list without its element at idx
DelAt(q, idx) == SubSeq(q, 1, idx - 1) \o SubSeq(q, idx + 1, Len(q))

delete(t, id) ==
    /\ pc[t] = "idle"
    /\ Constructed
    /\ lock = 0
    /\ LET sc == Scan(heap, todos, id)
           ret0 == NoRet
       IN IF sc.raises \/ sc.idx = 0
          THEN /\ Commit(heap, todos, op,
                         RetObj("delete", id, IF sc.raises THEN "raised" ELSE "false", 0))
               /\ UNCHANGED <<lock, pc, pre>>
          ELSE LET td1 == DelAt(todos, sc.idx)
                   op1 == [op EXCEPT ![t] = [NoOp EXCEPT !.name = "delete", !.id = id]]
               IN /\ Commit(heap, td1, op1, ret0)
                  /\ lock' = t
                  /\ pre' = Deref(heap, todos)
                  /\ pc' = [pc EXCEPT ![t] = "persist"]
    /\ UNCHANGED <<persistence, file, tmp, clock, nextId, last, base, flips,
                   deleted>>

\* ------------------------------------------------------------ persist
\* what follows _persist_locked in the call of thread t: the lock is
\* released and the call returns (a copy of the record, True, or nothing
\* for the constructor)
Return(t) ==
    LET name == op[t].name
        op1 == [op EXCEPT ![t] = NoOp]
        used == InUse(todos, op1, NoRet)
    IN /\ lock' = 0
       /\ pc' = [pc EXCEPT ![t] = "idle"]
       /\ pre' = << >>
       /\ last' = IF name = "ctor" THEN last ELSE "ok"
       /\ deleted' = IF name = "delete" THEN deleted \cup {op[t].id} ELSE deleted
       /\ flips' = IF name = "toggle"
                   THEN [flips EXCEPT ![op[t].id] = 1 - @] ELSE flips
       /\ IF name \in {"create", "update", "toggle"}
          THEN /\ Addr \ used # {}
               /\ LET a == NewAddr(used)
                  IN Commit([heap EXCEPT ![a] = heap[op[t].obj]],
                            todos, op1, RetObj(name, op[t].id, "ok", a))
          ELSE Commit(heap, todos, op1,
                      IF name = "delete"
                      THEN RetObj("delete", op[t].id, "true", 0) ELSE ret)
       /\ UNCHANGED <<persistence, clock, nextId, base>>

\* _persist_locked in memory mode: returns at once
PersistSkip(t) ==
    /\ pc[t] = "persist"
    /\ persistence # "file"
    /\ Return(t)
    /\ UNCHANGED <<file, tmp>>

\* open(tmp_path, "w"): the temp file is created or truncated
PersistOpen(t) ==
    /\ pc[t] = "persist"
    /\ persistence = "file"
    /\ tmp' = FileOf(<< >>)
    /\ pc' = [pc EXCEPT ![t] = "persist_write"]
    /\ UNCHANGED <<persistence, file, heap, todos, lock, op, ret, clock,
                   nextId, last, pre, base, flips, deleted>>

\* a _persist_locked that writes into the target file itself
PersistWriteInPlace(t) ==
    /\ pc[t] = "persist_write"
    /\ LET full == JsonDump(Deref(heap, todos))
           n == Len(tmp.text) + 1
       IN /\ n <= Len(full)
          /\ tmp' = FileOf(tmp.text \o <<full[n]>>)
          /\ file' = FileOf(tmp.text \o <<full[n]>>)
          /\ pc' = [pc EXCEPT ![t] = IF n = Len(full) THEN "persist_replace"
                                     ELSE "persist_write"]
    /\ UNCHANGED <<persistence, heap, todos, lock, op, ret, clock,
                   nextId, last, pre, base, flips, deleted>>

\* json.dump hands the serialization to the file piece by piece, each piece
\* encoded from the collection as it is when the piece is written; a step
\* appends the next one, so the temp file passes through every prefix, and
\* with the last piece the file is closed
PersistWrite(t) ==
    /\ pc[t] = "persist_write"
    /\ LET full == JsonDump(Deref(heap, todos))
           n == Len(tmp.text) + 1
       IN /\ n <= Len(full)
          /\ tmp' = FileOf(tmp.text \o <<full[n]>>)
          /\ pc' = [pc EXCEPT ![t] = IF n = Len(full) THEN "persist_replace"
                                     ELSE "persist_write"]
    /\ UNCHANGED <<persistence, file, heap, todos, lock, op, ret, clock,
                   nextId, last, pre, base, flips, deleted>>

\* a _persist_locked that forgets os.replace: the temp file is dropped and
\* the call returns
PersistReplaceForgotten(t) ==
    /\ pc[t] = "persist_replace"
    /\ file' = file
    /\ tmp' = NoFile
    /\ Return(t)

\* os.replace(tmp_path, self._file_path), and the return of the call
PersistReplace(t) ==
    /\ pc[t] = "persist_replace"
    /\ file' = tmp
    /\ tmp' = NoFile
    /\ Return(t)

\* open, write or os.replace raises: the exception leaves the with block
\* (the lock is released) and the call; nothing is rolled back. The with
\* block of the temp file closes it on the way out, so the text handed to it
\* so far reaches the disk. When it is the constructor that raises, the
\* import fails and the process ends.
IOFail(t) ==
    /\ pc[t] \in {"persist", "persist_write", "persist_replace"}
    /\ persistence = "file"
    /\ IF op[t].name = "ctor"
       THEN Started /\ UNCHANGED tmp
       ELSE LET op1 == [op EXCEPT ![t] = NoOp]
                ret1 == RetObj(op[t].name, op[t].id, "raised", 0)
            IN /\ lock' = 0
               /\ pc' = [pc EXCEPT ![t] = "idle"]
               /\ Commit(heap, todos, op1, ret1)
               /\ last' = "raised"
               /\ pre' = << >>
               /\ IF op[t].name = "toggle"
                  THEN /\ base' = [base EXCEPT ![op[t].id] =
                                      heap[op[t].obj].d.completed]
                       /\ flips' = [flips EXCEPT ![op[t].id] = 0]
                  ELSE UNCHANGED <<base, flips>>
               /\ UNCHANGED <<persistence, file, tmp, clock, nextId, deleted>>


\* ------------------------------------------------------------ list
Max(a, b) == IF a >= b THEN a ELSE b
Min(a, b) == IF a <= b THEN a ELSE b

\* the search filter: q in title.lower() or q in description.lower()
Matches(d, search) ==
    LET q == Lower(search)
    IN \/ Contains(q, Lower(FieldGet(d, "title", << >>)))
       \/ Contains(q, Lower(OrEmpty(FieldGet(d, "description", None))))

\* the two filters, applied to a list of dicts
Filtered(ds, a) ==
    LET f1 == IF a.search # None /\ a.search[1] # << >>
              THEN SelectSeq(ds, LAMBDA x : Matches(x.d, a.search[1]))
              ELSE ds
    IN IF a.completed # None
       THEN SelectSeq(f1, LAMBDA x : FieldGet(x.d, "completed", FALSE) = a.completed[1])
       ELSE f1

\* the key list sorts by (unknown names fall back to created_at)
EffectiveSortBy(sort_by) ==
    IF sort_by \in {"created_at", "updated_at", "title", "priority"}
    THEN sort_by ELSE "created_at"

\* reverse without .lower()
ReverseCased(sort_dir) ==
    (IF sort_dir = None \/ sort_dir[1] = << >> THEN s_desc ELSE sort_dir[1])
        = s_desc

\* reverse = (sort_dir or "desc").lower() == "desc"
Reverse(sort_dir) ==
    Lower(IF sort_dir = None \/ sort_dir[1] = << >> THEN s_desc ELSE sort_dir[1])
        = s_desc

\* sort_key: strings as they are (title lowered), a priority p as <<0, p>>
\* and a missing one (float("inf")) as <<1>>, compared by SeqLess
SortKey(d, sort_by) ==
    IF sort_by = "title" THEN Lower(FieldGet(d, "title", << >>))
    ELSE IF sort_by = "priority"
    THEN (IF FieldGet(d, "priority", None) = None THEN <<1>>
          ELSE <<0, d.priority[1]>>)
    ELSE FieldGet(d, sort_by, << >>)

\* items.sort(key=sort_key, reverse=reverse): the sort is stable, also when
\* reversed (equal keys keep the order they had)
SortedByKeys(ds, keys, reverse) ==
    LET n == Len(ds)
        Before(i, j) ==
            IF reverse THEN SeqLess(keys[j], keys[i]) ELSE SeqLess(keys[i], keys[j])
        Prec(i, j) == Before(i, j) \/ (~Before(j, i) /\ i < j)
        rank(i) == 1 + Cardinality({j \in 1..n : Prec(j, i)})
    IN [p \in 1..n |-> ds[CHOOSE i \in 1..n : rank(i) = p]]

SortedBy(ds, sort_by, reverse) ==
    SortedByKeys(ds, [i \in 1..Len(ds) |-> SortKey(ds[i].d, sort_by)], reverse)

\* page = max(1, int(page or 1))
EffectivePage(page) == Max(1, IF page = 0 THEN DefaultPage ELSE page)

\* per_page = max(1, int(per_page or 20))
EffectivePerPage(per_page) == Max(1, IF per_page = 0 THEN DefaultPerPage ELSE per_page)

\* pages by rounding down
PagesFloor(total, per_page) ==
    IF total > 0 THEN total \div per_page ELSE 1

\* pages = (total + per_page - 1) // per_page if total > 0 else 1
Pages(total, per_page) ==
    IF total > 0 THEN (total + per_page - 1) \div per_page ELSE 1

\* items[start:end]
Slice(q, start, end) == SubSeq(q, start + 1, Min(end, Len(q)))

\* list, after the snapshot: which elements of the snapshot (by position)
\* make the page, and the meta
PageOfSorted(sorted, a) ==
    LET page == EffectivePage(a.page)
        per_page == EffectivePerPage(a.per_page)
        total == Len(sorted)
        start == (page - 1) * per_page
        page_items == Slice(sorted, start, start + per_page)
    IN [pos |-> [i \in 1..Len(page_items) |-> page_items[i].pos],
        meta |-> [page |-> page, per_page |-> per_page, total |-> total,
                  pages |-> Pages(total, per_page)]]

ListPage(objs, a) ==
    PageOfSorted(
        SortedBy(Filtered([i \in 1..Len(objs) |-> [pos |-> i, d |-> objs[i].d]], a),
                 EffectiveSortBy(a.sort_by), Reverse(a.sort_dir)),
        a)

\* list, inside the lock: items = list(self._todos)
ListSnapshot(t, a) ==
    /\ pc[t] = "idle"
    /\ Constructed
    /\ lock = 0
    /\ LET ret0 == NoRet
           op1 == [op EXCEPT ![t] = [NoOp EXCEPT !.name = "list", !.snap = todos,
                                                !.args = a]]
       IN Commit(heap, todos, op1, ret0)
    /\ pc' = [pc EXCEPT ![t] = "list_post"]
    /\ UNCHANGED <<persistence, file, tmp, lock, clock, nextId, last,
                   pre, base, flips, deleted>>

\* a list that filters, sorts and paginates self._todos itself after the
\* lock, and not the copy it took
ListFinishLive(t) ==
    /\ pc[t] = "list_post"
    /\ LET snap == todos
           a == op[t].args
           objs == Deref(heap, snap)
           op1 == [op EXCEPT ![t] = NoOp]
           ret1 == IF \E i \in 1..Len(objs) : objs[i].kind # "dict"
                   THEN [RetObj("list", 0, "raised", 0) EXCEPT !.args = a]
                   ELSE LET r == ListPage(objs, a)
                        IN [call |-> "list", id |-> 0, st |-> "ok", obj |-> 0,
                            items |-> [i \in 1..Len(r.pos) |-> snap[r.pos[i]]],
                            meta |-> r.meta, args |-> a]
       IN Commit(heap, todos, op1, ret1)
    /\ pc' = [pc EXCEPT ![t] = "idle"]
    /\ UNCHANGED <<persistence, file, tmp, lock, clock, nextId, last,
                   pre, base, flips, deleted>>

\* list, after the lock: filter, sort, paginate the snapshot. An element
\* that is no dict makes the sort key (or a filter) raise.
ListFinish(t) ==
    /\ pc[t] = "list_post"
    /\ LET snap == op[t].snap
           a == op[t].args
           objs == Deref(heap, snap)
           op1 == [op EXCEPT ![t] = NoOp]
           ret1 == IF \E i \in 1..Len(objs) : objs[i].kind # "dict"
                   THEN [RetObj("list", 0, "raised", 0) EXCEPT !.args = a]
                   ELSE LET r == ListPage(objs, a)
                        IN [call |-> "list", id |-> 0, st |-> "ok", obj |-> 0,
                            items |-> [i \in 1..Len(r.pos) |-> snap[r.pos[i]]],
                            meta |-> r.meta, args |-> a]
       IN Commit(heap, todos, op1, ret1)
    /\ pc' = [pc EXCEPT ![t] = "idle"]
    /\ UNCHANGED <<persistence, file, tmp, lock, clock, nextId, last,
                   pre, base, flips, deleted>>

\* ------------------------------------------------------------ Next
\* the calls of thread t that change the store, with payloads from CI and UI
Mutate(t, CI, UI) ==
    \/ \E data \in CI : CreateBegin(t, data)
    \/ CreateLocked(t)
    \/ \E id \in Ids, data \in UI : update(t, id, data)
    \/ \E id \in Ids : toggle(t, id)
    \/ \E id \in Ids : delete(t, id)

\* _persist_locked in file mode, step by step
Persist(t) ==
    \/ PersistOpen(t)
    \/ PersistWrite(t)
    \/ PersistReplace(t)

\* a file-mode store right after its construction at a path that held no
\* file: the empty list is in memory and in the file
InitUp ==
    /\ persistence = "file"
    /\ file = FileOf(JsonDump(<< >>))
    /\ tmp = NoFile
    /\ heap = [a \in Addr |-> Free]
    /\ todos = << >>
    /\ lock = 0
    /\ pc = [t \in Threads |-> "idle"]
    /\ op = [t \in Threads |-> NoOp]
    /\ ret = NoRet
    /\ clock = 0
    /\ nextId = 1
    /\ last = "none"
    /\ pre = << >>
    /\ base = [i \in RecIds |-> FALSE]
    /\ flips = [i \in RecIds |-> 0]
    /\ deleted = {}

\* the threads of the server work on a constructed store; no fault occurs
Next ==
    \E t \in Threads :
        \/ Mutate(t, CreateInputs, {RichUpdate})
        \/ \E id \in Ids : get(t, id)
        \/ Persist(t)

Spec == InitUp /\ [][Next]_vars

\* the life of the process from its start, with one thread, in either mode,
\* over any file, with I/O errors and crashes
NextFault ==
    \/ Crash
    \/ Construct(Main)
    \/ Mutate(Main, {RichCreate}, {RichUpdate})
    \/ Persist(Main)
    \/ PersistSkip(Main)
    \/ IOFail(Main)

SpecFault == Init /\ [][NextFault]_vars


\* ------------------------------------------------------------ callers
\* the caller changes a field of a record it was handed (record["title"] =
\* "x"); the records it can reach here are those of the call that returned
\* last, before it makes another call
CallerMutate ==
    \E a \in ({ret.obj} \cup Range(ret.items)) \ {0} :
        /\ heap[a].kind = "dict"
        /\ heap[a].d # Assigned(heap[a].d, [title |-> s_bogus])
        /\ heap' = [heap EXCEPT ![a] =
                       DictOf(KeysAfter(heap[a].keys, <<"title">>),
                              Assigned(heap[a].d, [title |-> s_bogus]))]
        /\ UNCHANGED <<persistence, file, tmp, todos, lock, pc, op, ret, clock,
                       nextId, last, pre, base, flips, deleted>>

\* one thread calls the store, as time passes, and changes what it gets back
NextAlias ==
    \/ Tick
    \/ Mutate(Main, CreateInputs, UpdateInputs)
    \/ \E id \in Ids : get(Main, id)
    \/ ListSnapshot(Main, DefaultArgs)
    \/ ListFinish(Main)
    \/ Persist(Main)
    \/ CallerMutate

SpecAlias == InitUp /\ [][NextAlias]_vars

\* ------------------------------------------------------------ list alone
\* records as create and update leave them (the id is set by the position)
ShapePool ==
    { NewTodo(MkData({"title"}, Some(s_a_padded), None, None, None, None),
              0, utc_now_iso(0)),
      NewTodo(RichCreate, 0, utc_now_iso(1)),
      UpdatedDict(NewTodo(MkData({"title"}, Some(s_ab), None, None, None, None),
                          0, utc_now_iso(0)),
                  MkData({"priority"}, None, None, None, None, Some(2)),
                  utc_now_iso(2)) }

\* a store that holds up to MaxLen records, at rest
InitList ==
    \E n \in 0..MaxLen : \E shapes \in [1..n -> ShapePool] :
        /\ persistence = "file"
        /\ heap = [a \in Addr |->
                     IF a <= n THEN DictObj([shapes[a] EXCEPT !.id = a]) ELSE Free]
        /\ todos = [i \in 1..n |-> i]
        /\ file = FileOf(JsonDump([i \in 1..n |->
                                     DictObj([shapes[i] EXCEPT !.id = i])]))
        /\ tmp = NoFile
        /\ lock = 0
        /\ pc = [t \in Threads |-> "idle"]
        /\ op = [t \in Threads |-> NoOp]
        /\ ret = NoRet
        /\ clock = 0
        /\ nextId = n + 1
        /\ last = "none"
        /\ pre = << >>
        /\ base = [i \in RecIds |-> FALSE]
        /\ flips = [i \in RecIds |-> 0]
        /\ deleted = {}

s_A == <<65>>
s_b == <<98>>

\* the arguments the list calls are made with: pagination, sorting, filters
PageArgs ==
    { ListArgs(None, c, "created_at", Some(d), p, pp) :
        c \in {None, Some(TRUE)}, d \in {s_asc, s_desc},
        p \in (-1)..(MaxLen + 1), pp \in (-1)..MaxLen }
SortArgs ==
    { ListArgs(None, None, sb, d, 1, 20) :
        sb \in {"created_at", "updated_at", "title", "priority", "bogus"},
        d \in {None, Some(s_empty), Some(s_desc), Some(s_DESC), Some(s_Desc),
               Some(s_asc), Some(s_bogus)} }
FilterArgs ==
    { ListArgs(q, c, "title", Some(s_asc), 1, 2) :
        q \in {Some(s_A), Some(s_b), Some(s_empty)},
        c \in {None, Some(TRUE), Some(FALSE)} }
AllListArgs == PageArgs \cup SortArgs \cup FilterArgs

\* one list call on the collection drawn
NextList ==
    \/ \E a \in AllListArgs : ret = NoRet /\ ListSnapshot(Main, a)
    \/ ListFinish(Main)

SpecList == InitList /\ [][NextList]_vars

\* ------------------------------------------------------------ delete
\* the records create has stored, one after the other
Stored ==
    <<NewTodo(MkData({"title"}, Some(s_a_padded), None, None, None, None),
              1, utc_now_iso(0)),
      NewTodo(RichCreate, 2, utc_now_iso(0)),
      NewTodo(MkData({"title"}, Some(s_ab), None, None, None, None),
              3, utc_now_iso(0))>>

\* a store at rest that holds the first n of these records
InitDelete ==
    \E n \in 0..MaxLen :
        /\ persistence = "file"
        /\ heap = [a \in Addr |-> IF a <= n THEN DictObj(Stored[a]) ELSE Free]
        /\ todos = [i \in 1..n |-> i]
        /\ file = FileOf(JsonDump([i \in 1..n |-> DictObj(Stored[i])]))
        /\ tmp = NoFile
        /\ lock = 0
        /\ pc = [t \in Threads |-> "idle"]
        /\ op = [t \in Threads |-> NoOp]
        /\ ret = NoRet
        /\ clock = 0
        /\ nextId = n + 1
        /\ last = "none"
        /\ pre = << >>
        /\ base = [i \in RecIds |-> i <= n /\ Stored[i].completed]
        /\ flips = [i \in RecIds |-> 0]
        /\ deleted = {}

\* two threads call create, get, update, toggle and delete with the ids of
\* up to MaxLen records
NextDelete ==
    \E t \in Threads :
        \/ CreateBegin(t, RichCreate)
        \/ CreateLocked(t)
        \/ \E id \in RecIds :
              \/ get(t, id)
              \/ update(t, id, RichUpdate)
              \/ toggle(t, id)
              \/ delete(t, id)
        \/ Persist(t)

SpecDelete == InitDelete /\ [][NextDelete]_vars

\* ------------------------------------------------------------ update alone
\* a due date: "9Z"
s_due == <<57, 90>>

\* payloads of update: every key null, some keys, no key, the other keys
FrameUpdates ==
    UpdateInputs \cup
    { MkData({}, None, None, None, None, None),
      MkData({"description", "completed", "due_date"},
             None, Some(s_a_padded), Some(FALSE), Some(s_due), None) }

\* one thread creates, updates, toggles and deletes as time passes
NextFrame ==
    \/ Tick
    \/ Mutate(Main, {RichCreate}, FrameUpdates)
    \/ Persist(Main)

SpecFrame == InitUp /\ [][NextFrame]_vars

\* ------------------------------------------------------------ timestamps
\* two threads call create, update, toggle and delete while the clock runs
NextClock ==
    \/ Tick
    \/ \E t \in Threads :
        \/ Mutate(t, {RichCreate}, {RichUpdate})
        \/ Persist(t)

SpecClock == InitUp /\ [][NextClock]_vars

\* ------------------------------------------------------------ list and writers
SnapArgs ==
    { DefaultArgs,
      ListArgs(None, Some(TRUE), "updated_at", Some(s_asc), 1, 20),
      ListArgs(None, None, "title", Some(s_asc), 2, 1) }

\* two threads call list and create, update, toggle and delete
NextSnap ==
    \E t \in Threads :
        \/ Mutate(t, {RichCreate}, {RichUpdate})
        \/ Persist(t)
        \/ \E a \in SnapArgs : ListSnapshot(t, a)
        \/ ListFinish(t)

SpecSnap == InitUp /\ [][NextSnap]_vars

\* ------------------------------------------------------------ properties
\* the collection in memory, as values
Collection == Deref(heap, todos)

\* what a store constructed on the target file would load
Loaded == LoadsTodos(file.text)

\* a file-mode store at rest: constructed, no call holds the lock
AtRest == persistence = "file" /\ Constructed /\ lock = 0

\* C1: in file mode, whenever the lock is free after a mutating call that
\* returned successfully, the target file exists and decodes to the
\* in-memory collection (same records, same field values, same order), so a
\* store constructed on the same file loads an equal collection.
C1_FileEqualsMemory ==
    (AtRest /\ last = "ok") =>
        /\ file.exists
        /\ Loaded.ok
        /\ Loaded.objs = Collection

\* two records were created and changed, the last call returned, and the
\* file holds both
C1_Witness ==
    /\ AtRest /\ last = "ok"
    /\ Len(todos) = 2
    /\ \E i \in 1..2 : Collection[i].kind = "dict" /\ Collection[i].d.priority = Some(2)
    /\ Loaded.objs = Collection

\* C2: a caller changing a field of a record some call handed to it never
\* changes the collection of the store (what later get and list calls return
\* and what the next mutation persists).
C2_CallerCannotChangeStore ==
    [][CallerMutate => Deref(heap', todos') = Collection]_vars

\* C3: the record create returns, and the record it stored, have
\* completed = false whatever the input dict carries.
C3_CreatedIsNotCompleted ==
    (ret.call = "create" /\ ret.st = "ok") =>
        /\ heap[ret.obj].d.completed = FALSE
        /\ \A i \in 1..Len(todos) :
              Collection[i].d.id = ret.id => Collection[i].d.completed = FALSE

\* the target file holds a JSON object with a todos array
WellFormedFile ==
    /\ file.exists
    /\ Len(file.text) >= 5
    /\ SubSeq(file.text, 1, 3) = <<TokLBrace, TokKey("todos"), TokLBrack>>
    /\ SubSeq(file.text, Len(file.text) - 1, Len(file.text)) = <<TokRBrack, TokRBrace>>

\* the construction has just finished: no call was made since
JustConstructed ==
    /\ AtRest
    /\ pc[Main] = "idle"
    /\ last = "none"
    /\ ret = NoRet

\* C4: when the construction of a file-mode store has finished, the target
\* file is well formed and holds the collection in memory: a missing or
\* malformed file was replaced by the empty list, and the collection is empty
\* then.
C4_ConstructionLeavesGoodFile ==
    JustConstructed =>
        /\ WellFormedFile
        /\ Loaded.objs = Collection
        /\ \A i \in 1..Len(todos) : Collection[i].kind = "dict"

\* a mutating call holds the lock
Mutating == lock # 0 /\ op[lock].name \in {"create", "update", "toggle", "delete"}

\* C5 as stated: while a mutation is in progress the target file, when it is
\* well formed, holds the collection as it was before the mutation or as it
\* is after it.
C5_FileIsBeforeOrAfter ==
    (persistence = "file" /\ Mutating /\ WellFormedFile) =>
        Loaded.objs \in {pre, Collection}

\* the file f is completely written: it decodes, and it holds a JSON object
\* with a todos array, from the opening brace to the closing one
FullyWritten(f) ==
    /\ f.exists
    /\ Len(f.text) >= 5
    /\ SubSeq(f.text, 1, 3) = <<TokLBrace, TokKey("todos"), TokLBrack>>
    /\ SubSeq(f.text, Len(f.text) - 1, Len(f.text)) = <<TokRBrack, TokRBrace>>
    /\ LoadsTodos(f.text).ok

\* C5: the only step that changes the target file is the rename of the
\* fully written temp file: every other step, a crash and a failed write at
\* any step inside a persist included, leaves the target file as it was, so
\* no persist leaves a partially written content in it.
C5_OnlyRenameChangesFile ==
    [][file' # file =>
          /\ lock # 0
          /\ pc[lock] = "persist_replace"
          /\ pc'[lock] = "idle"
          /\ FullyWritten(tmp)
          /\ file' = tmp]_vars

\* the write failed after its first piece, when an earlier mutation had been
\* persisted: the temp file holds the opening brace alone, the target file
\* still holds the earlier collection, complete
C5_Witness ==
    /\ AtRest /\ last = "raised"
    /\ tmp = FileOf(<<TokLBrace>>)
    /\ FullyWritten(file)
    /\ Len(Loaded.objs) = 1
    /\ Loaded.objs # Collection

\* C6: when no call holds the lock, completed of every live record is the
\* value it had when it was created or last updated if the number of toggle
\* calls returned since is even, and the negation if it is odd, whatever the
\* threads interleave.
C6_ToggleParity ==
    lock = 0 =>
        \A i \in 1..Len(todos) :
            Collection[i].d.completed =
                (base[Collection[i].d.id] # (flips[Collection[i].d.id] = 1))

\* a second toggle of a record has returned while the other thread is in a
\* call of its own, and the record is back at its original value
C6_Witness ==
    /\ lock = 0
    /\ ret.call = "toggle" /\ ret.st = "ok"
    /\ flips[ret.id] = 0
    /\ heap[ret.obj].d.completed = base[ret.id]
    /\ \E t \in Threads : pc[t] = "create_wait"

\* a call ends with this step and hands its result to the caller
Returns(call) == ret' # ret /\ ret'.call = call

\* C7: once delete(X) has returned true, get, update and toggle of X end
\* with not-found and another delete of X returns false; a delete that
\* returns false changes neither the collection nor the file; a delete that
\* returns true has removed the record X alone, kept the others in their
\* order, and the file holds the result.
C7_DeleteThenNotFound ==
    [][/\ (\E c \in {"get", "update", "toggle"} : Returns(c)) /\ ret'.id \in deleted
            => ret'.st = "notfound"
       /\ Returns("delete") /\ ret'.id \in deleted
            => ret'.st = "false"
       /\ Returns("delete") /\ ret'.st = "false"
            => Deref(heap', todos') = Collection /\ file' = file
       /\ Returns("delete") /\ ret'.st = "true"
            => /\ Deref(heap', todos')
                    = SelectSeq(pre, LAMBDA o : o.d.id # ret'.id)
               /\ Len(todos') = Len(pre) - 1
               /\ \A i \in 1..Len(todos') : heap'[todos'[i]].d.id # ret'.id
               /\ ret'.id \notin deleted
               /\ file' = FileOf(JsonDump(Deref(heap', todos')))]_vars

\* of three records the middle one was deleted, the first and the third are
\* left in their order, and a later call on the deleted id has ended with
\* not-found, or with false for a second delete
C7_Witness ==
    /\ lock = 0
    /\ ret.id \in deleted
    /\ ret.id = 2
    /\ ret.st \in {"notfound", "false"}
    /\ Len(todos) = 2
    /\ Collection[1].d.id = 1
    /\ Collection[2].d.id = 3
    /\ FileOf(JsonDump(Collection)) = file

\* a list call has returned (the collection has not changed since)
ListReturned == ret.call = "list" /\ ret.st = "ok" /\ lock = 0

\* the records list handed out, as values
Items == Deref(heap, ret.items)

\* the record d passes the filters of a list call with arguments a
Passes(d, a) ==
    /\ (a.search # None /\ a.search[1] # << >>)
          => \E s \in {Lower(d.title), Lower(OrEmpty(d.description))} :
                Contains(Lower(a.search[1]), s)
    /\ a.completed # None => d.completed = a.completed[1]

\* ceil(n / d)
CeilDiv(n, d) == CHOOSE k \in 0..n : k * d >= n /\ (k - 1) * d < n

\* the page p of per_page records of the list call with arguments a
PageOf(a, p, per_page) ==
    LET r == ListPage(Collection, [a EXCEPT !.page = p, !.per_page = per_page])
    IN [i \in 1..Len(r.pos) |-> Collection[r.pos[i]]]

\* the whole sorted filtered sequence: one page that holds everything
Whole(a) == PageOf(a, 1, Len(todos) + 1)

\* the pages p..n one after the other
RECURSIVE PagesFrom(_, _, _)
PagesFrom(a, p, n) ==
    IF p > n THEN << >> ELSE PageOf(a, p, a.per_page) \o PagesFrom(a, p + 1, n)

\* C8: for page >= 1 and per_page >= 1, total is the number of records that
\* pass the filters, pages is max(1, ceil(total / per_page)), the items are
\* the sorted filtered sequence from (page-1)*per_page up to page*per_page
\* (none beyond the last page, without error), and the pages 1..pages one
\* after the other are the sorted filtered sequence, which holds each record
\* that passes once.
C8_Pagination ==
    (ListReturned /\ ret.args.page >= 1 /\ ret.args.per_page >= 1) =>
        \E whole \in {Whole(ret.args)}, items \in {Items} :
            LET a == ret.args
                passing == {i \in 1..Len(todos) : Passes(Collection[i].d, a)}
                total == Cardinality(passing)
                first == (a.page - 1) * a.per_page
                count == Max(0, Min(total, a.page * a.per_page) - first)
            IN /\ ret.meta.total = total
               /\ ret.meta.pages = Max(1, CeilDiv(total, a.per_page))
               /\ Len(whole) = total
               /\ \A i \in passing : \E k \in 1..total : whole[k] = Collection[i]
               /\ items = [k \in 1..count |-> whole[first + k]]
               /\ a.page > ret.meta.pages => items = << >>
               /\ PagesFrom(a, 1, ret.meta.pages) = whole

\* a page beyond the last of two was listed: no items, no error
C8_Witness ==
    /\ ListReturned
    /\ ret.args.page = 3 /\ ret.args.per_page = 2
    /\ ret.meta.total = 3 /\ ret.meta.pages = 2
    /\ ret.items = << >>

\* C9: the page and per_page list reports and slices by are max(1, page) and
\* max(1, per_page) of the arguments, zero and negative ones included.
C9_ClampedToOne ==
    ListReturned =>
        /\ ret.meta.page = Max(1, ret.args.page)
        /\ ret.meta.per_page = Max(1, ret.args.per_page)
        /\ Len(ret.items) <= Max(1, ret.args.per_page)

\* the keys of the items, in the order list returned them
ItemKeys == [i \in 1..Len(ret.items) |->
               SortKey(Items[i].d, EffectiveSortBy(ret.args.sort_by))]
Descending(keys) ==
    \A i \in 1..Len(keys), j \in 1..Len(keys) : i < j => ~SeqLess(keys[i], keys[j])
Ascending(keys) ==
    \A i \in 1..Len(keys), j \in 1..Len(keys) : i < j => ~SeqLess(keys[j], keys[i])

\* C10 as stated: the result is in descending key order when sort_dir is
\* "desc" in any case, and in ascending key order for every other sort_dir,
\* the empty string and a missing one included.
C10_DescOnlyWhenDesc ==
    ListReturned =>
        IF ret.args.sort_dir # None /\ Lower(ret.args.sort_dir[1]) = s_desc
        THEN Descending(ItemKeys)
        ELSE Ascending(ItemKeys)

\* C10: the result is in descending key order when sort_dir is missing, null
\* or empty, or is "desc" in any case; for every other sort_dir it is in
\* ascending key order.
C10_DescByDefault ==
    ListReturned =>
        IF \/ ret.args.sort_dir = None
           \/ ret.args.sort_dir[1] = s_empty
           \/ Lower(ret.args.sort_dir[1]) = s_desc
        THEN Descending(ItemKeys)
        ELSE Ascending(ItemKeys)

\* a list call without sort_dir returned records in strictly descending
\* order of their titles
C10_Witness ==
    /\ ListReturned
    /\ ret.args.sort_dir = None
    /\ ret.args.sort_by = "title"
    /\ Len(ret.items) = 3
    /\ \A i \in 1..2 : SeqLess(ItemKeys[i + 1], ItemKeys[i])

\* the position of the record with id i in the collection (0: none)
PosOf(i) ==
    IF \E k \in 1..Len(todos) : Collection[k].d.id = i
    THEN CHOOSE k \in 1..Len(todos) : Collection[k].d.id = i
    ELSE 0

\* the step is an update of an unknown id: not-found, nothing changes
UnknownUnchanged(id) ==
    PosOf(id) = 0 =>
        /\ ret'.call = "update" /\ ret'.st = "notfound"
        /\ Deref(heap', todos') = Collection
        /\ file' = file

\* the step is an update that leaves the other records, the order, the
\* position, id and created_at as they are, and sets each of the fields in
\* keys as the payload says or keeps it
FrameKept(id, data, keys) ==
    PosOf(id) # 0 =>
        LET p == PosOf(id)
            old == Collection[p].d
            new == heap'[todos'[p]].d
        IN /\ Len(todos') = Len(todos)
           /\ \A k \in 1..Len(todos) : k # p => heap'[todos'[k]] = Collection[k]
           /\ new.id = old.id
           /\ new.created_at = old.created_at
           /\ new.title = IF "title" \in data.keys /\ data.title # None
                          THEN Strip(data.title[1]) ELSE old.title
           /\ new.completed = IF "completed" \in data.keys /\ data.completed # None
                              THEN data.completed[1] ELSE old.completed
           /\ \A f \in {"description", "due_date", "priority"} :
                 new[f] = IF f \in data.keys THEN data[f] ELSE old[f]
           /\ \A f \in keys \ data.keys : new[f] = old[f]

\* C11 as stated: update changes only the fields whose key is in the
\* payload (every other field of the record, updated_at included, is as it
\* was); it keeps id, created_at, the other records, the order and the
\* position; on an unknown id it returns not-found and changes nothing.
C11_OnlyPresentKeysChange ==
    [][\A id \in Ids, data \in FrameUpdates :
          update(Main, id, data) =>
              /\ UnknownUnchanged(id)
              /\ FrameKept(id, data, {TodoKeys[i] : i \in 1..Len(TodoKeys)})]_vars

\* C11: update changes only the fields whose key is in the payload, and
\* updated_at, which it sets to the clock; it keeps id, created_at, the
\* other records, the order and the position; on an unknown id it returns
\* not-found and changes nothing.
C11_PresentKeysAndUpdatedAt ==
    [][\A id \in Ids, data \in FrameUpdates :
          update(Main, id, data) =>
              /\ UnknownUnchanged(id)
              /\ FrameKept(id, data,
                           {TodoKeys[i] : i \in 1..Len(TodoKeys)} \ {"updated_at"})
              /\ PosOf(id) # 0 =>
                    heap'[todos'[PosOf(id)]].d.updated_at = utc_now_iso(clock)]_vars

\* an update with title, completed and priority has returned, after a tick:
\* the title is trimmed, the description is the one given at creation
C11_Witness ==
    /\ ret.call = "update" /\ ret.st = "ok"
    /\ heap[ret.obj].d.title = s_a
    /\ heap[ret.obj].d.description = Some(s_ab)
    /\ heap[ret.obj].d.priority = Some(2)
    /\ heap[ret.obj].d.updated_at # heap[ret.obj].d.created_at
    /\ Len(todos) = 2

\* the record with this id keeps its created_at over the step
CreatedAtKept ==
    \A k \in 1..Len(todos'), j \in 1..Len(todos) :
        heap'[todos'[k]].d.id = Collection[j].d.id =>
            heap'[todos'[k]].d.created_at = Collection[j].d.created_at

\* create builds its record with the clock it reads before the lock, and
\* appends that record as it is once it has the lock
CreatedAtGiven ==
    \A t \in Threads :
        /\ (pc[t] = "idle" /\ pc'[t] = "create_wait") =>
               heap'[op'[t].obj].d.created_at = utc_now_iso(clock)
        /\ (pc[t] = "create_wait" /\ pc'[t] = "persist") =>
               heap'[todos'[Len(todos')]].d = heap[op[t].obj].d

\* a successful update or toggle stamps the clock it reads inside the call
StampedInsideCall ==
    \A t \in Threads :
        (pc[t] = "idle" /\ pc'[t] = "persist"
            /\ op'[t].name \in {"update", "toggle"}) =>
                heap'[op'[t].obj].d.updated_at = utc_now_iso(clock)

\* the instant a timestamp names, in half units: the digit of the units,
\* and the fraction when the text carries one
InstantOf(s) == 2 * (s[1] - 48) + (IF s[2] = 46 THEN 1 ELSE 0)

\* updated_at >= created_at, as instants
OrderedAsInstants ==
    \A k \in 1..Len(todos') :
        InstantOf(heap'[todos'[k]].d.updated_at)
            >= InstantOf(heap'[todos'[k]].d.created_at)

\* C12: in a store filled through create, under a clock that never goes
\* back, every live record keeps the created_at of its creation and has
\* updated_at >= created_at, and every successful update or toggle sets
\* updated_at to the clock read inside the call, in every interleaving.
C12_TimestampsOrdered ==
    [][CreatedAtKept /\ CreatedAtGiven /\ StampedInsideCall
         /\ OrderedAsInstants]_vars

\* a create read the clock, the clock advanced, the other thread updated or
\* toggled the first record, and only then the create took the lock and
\* appended its record, which carries the earlier instant
C12_Witness ==
    \E t \in Threads :
        /\ lock = t
        /\ pc[t] = "persist"
        /\ op[t].name = "create"
        /\ Len(todos) = 2
        /\ Collection[2].d.created_at = utc_now_iso(0)
        /\ Collection[1].d.created_at = utc_now_iso(0)
        /\ Collection[1].d.updated_at = utc_now_iso(1)

\* the list call of thread t takes its snapshot with this step
TakesSnapshot(t) == pc[t] = "idle" /\ pc'[t] = "list_post"

\* the list call of thread t returns with this step
ListReturns(t) == pc[t] = "list_post" /\ pc'[t] = "idle"

\* the snapshot is the collection of that instant, which no call is changing
SnapshotIsCollection ==
    \A t \in Threads :
        TakesSnapshot(t) =>
            /\ lock = 0
            /\ Deref(heap', op'[t].snap) = Collection

\* no step of any thread changes the records of a snapshot taken
SnapshotStable ==
    \A t \in Threads :
        (pc[t] = "list_post" /\ pc'[t] = "list_post") =>
            /\ op'[t].args = op[t].args
            /\ Deref(heap', op'[t].snap) = Deref(heap, op[t].snap)

\* the result is the page of the snapshot
ResultFromSnapshot ==
    \A t \in Threads :
        ListReturns(t) =>
            \E objs \in {Deref(heap, op[t].snap)} :
                \E r \in {ListPage(objs, op[t].args)} :
                    /\ ret'.call = "list" /\ ret'.st = "ok"
                    /\ ret'.meta = r.meta
                    /\ Deref(heap', ret'.items) =
                           [i \in 1..Len(r.pos) |-> objs[r.pos[i]]]

\* C13: a list call that runs while other threads create, update, toggle
\* and delete returns the page of the collection as it was when the snapshot
\* was taken under the lock: the snapshot holds the records of that instant,
\* no later step changes them, and the filtering, sorting and pagination
\* after the lock work on them alone.
C13_ListSeesOneInstant ==
    [][SnapshotIsCollection /\ SnapshotStable /\ ResultFromSnapshot]_vars

\* a list has returned a record in the version of its snapshot while the
\* call of another thread that has replaced it still holds the lock
C13_Witness ==
    /\ ret.call = "list" /\ ret.st = "ok"
    /\ lock # 0
    /\ \E i \in 1..Len(ret.items), k \in 1..Len(todos) :
          /\ heap[ret.items[i]].d.id = Collection[k].d.id
          /\ heap[ret.items[i]].d # Collection[k].d

====
